---- MODULE Spec2Model ----
(***************************************************************************)
(* Model of lad (Lambda Alias Deployment): the three aliases live, latest  *)
(* and previous of one Lambda function, and the commands deploy, canary,   *)
(* auto, promote, rollback and switch that operators run against them.     *)
(* Every command is a sequence of service calls; each call is one step, so *)
(* that a call can fail and commands of different operators can interleave.*)
(*                                                                         *)
(* A routing weight is kept in hundredths: the code computes               *)
(* float64(percent) / 100.0, the model keeps the numerator percent.        *)
(***************************************************************************)
EXTENDS Integers, Sequences, FiniteSets, TLC

\* ---------------------------------------------------------------- bounds
\* Highest version number publish_version hands out in a run of the model.
MaxVersion == 3
\* Number of commands the second operator runs while an auto run is waiting.
MaxOtherCommands == 1

\* ------------------------------------------------------ program constants
Success == 0
ParamError == 1
AWSError == 2
ResourceNotFound == 3
NetworkError == 4

\* ------------------------------------------------------------ input sets
Operators == {1, 2}
AliasNames == {"live", "latest", "previous"}
Versions == 1..MaxVersion
\* what a command meets before its first service call: the --env value,
\* whether a function name can be found (GetFunctionName) and whether the
\* client can be created (aws.NewClient). One case per outcome.
Setups ==
    { [envValue |-> "test", fnOk |-> TRUE,  clientOk |-> TRUE],
      [envValue |-> "prod", fnOk |-> TRUE,  clientOk |-> TRUE],
      [envValue |-> "dev",  fnOk |-> TRUE,  clientOk |-> TRUE],
      [envValue |-> "prod", fnOk |-> FALSE, clientOk |-> TRUE],
      [envValue |-> "prod", fnOk |-> TRUE,  clientOk |-> FALSE] }
\* --percent values of canary: the range 0..100, its edges and both outsides
CanaryPercents == {-1, 0, 10, 50, 100, 101}
\* --percent values of auto in the general specification
AutoPercents == {0, 40, 100, 101}
\* --wait values of auto: a duration that is not positive and one that is
AutoWaits == {0, 1}
\* --version values of switch: 0 stands for the empty string, MaxVersion + 1
\* is a version that was never published
SwitchVersions == 0..(MaxVersion + 1)
\* kinds of error a service call fails with
ErrKinds == {"network", "notfound", "generic"}
\* the local "no version read yet" value (Go's empty string)
NoVersion == 0

VARIABLES
    alias,        \* alias name -> [version, routing]; routing is the map
                  \* AdditionalVersionWeights as a set of <<version, weight>>
    published,    \* number of versions published so far (versions 1..published exist)
    proc,         \* operator -> the command it runs, its position and locals
    budget,       \* operator -> number of commands it may still start, in the
                  \* specifications that bound it
    probe         \* the argument and the results of the helper function under
                  \* examination (classifyError, CanaryStrategy methods), in
                  \* the specifications of the helper functions

vars == <<alias, published, proc, budget, probe>>

\* no helper function is under examination
NoProbe == [fn |-> "none"]

\* ------------------------------------------------------------ helpers
\* classifyError: exit code of a failed service call
classifyError(err) ==
    IF err = "none" THEN Success
    ELSE IF err = "network" THEN NetworkError
    ELSE IF err = "notfound" THEN ResourceNotFound
    ELSE AWSError

\* ValidateEnv: only test and prod are accepted
ValidateEnv(envValue) == envValue = "test" \/ envValue = "prod"

Idle ==
    [cmd |-> "none", pc |-> "idle", exitCode |-> -1,
     percent |-> 0, skipCanary |-> FALSE, switchVersion |-> NoVersion,
     steps |-> << >>, i |-> 0,
     liveVersion |-> NoVersion, latestVersion |-> NoVersion,
     previousVersion |-> NoVersion, newVersion |-> NoVersion,
     autoWait |-> 0, appended |-> << >>, warned |-> FALSE,
     err |-> "none", report |-> "none",
     calls |-> << >>, waits |-> 0, pre |-> alias]

\* a fresh process image for a command that starts now
Fresh(c) == [Idle EXCEPT !.cmd = c, !.pc = "start", !.pre = alias]

\* os.Exit(code) / return from the command's Run function
Exit(r, code) == [r EXCEPT !.pc = "done", !.exitCode = code]

\* the run ends on a failed service call: err is the error of the call, code
\* the exit code the call site chooses for it
ExitWith(r, err, code) == [r EXCEPT !.pc = "done", !.exitCode = code, !.err = err]

\* the call sites that exit with the code the client wrapper computed
Fail(r, err) == ExitWith(r, err, classifyError(err))

\* the record of one service call in the process's call history
Call(op, a, v, w, ok) ==
    [op |-> op, alias |-> a, version |-> v, canary |-> NoVersion, weight |-> w, ok |-> ok]
\* the record of one Client.ConfigureCanary call on live
CanaryCall(mainVersion, canaryVersion, w, ok) ==
    [op |-> "configure_canary", alias |-> "live", version |-> mainVersion,
     canary |-> canaryVersion, weight |-> w, ok |-> ok]
Log(r, c) == [r EXCEPT !.calls = Append(@, c)]

CanStart(p) == proc[p].pc \in {"idle", "done"}

\* the steps every command runs before its first service call: ValidateEnv,
\* its own argument check, GetFunctionName, aws.NewClient. Yields the exit
\* code of the first step that fails, or -1 when all pass.
Preamble(setup, argOk) ==
    IF ~ValidateEnv(setup.envValue) THEN ParamError
    ELSE IF ~argOk THEN ParamError
    ELSE IF ~setup.fnOk THEN ParamError
    ELSE IF ~setup.clientOk THEN AWSError
    ELSE -1

\* mutant of UpdateAlias: the routing configuration is left as it is
UpdateAlias_KeepRouting(a, version) ==
    alias' = [alias EXCEPT ![a].version = version]

\* Client.UpdateAlias: sets the version and clears the routing configuration
UpdateAlias(a, version) ==
    alias' = [alias EXCEPT ![a] = [version |-> version, routing |-> {}]]

\* mutant of ConfigureCanary: main and canary version change places
ConfigureCanary_Swapped(a, mainVersion, canaryVersion, weight) ==
    alias' = [alias EXCEPT ![a] = [version |-> canaryVersion,
                                   routing |-> {<<mainVersion, weight>>}]]

\* mutant of ConfigureCanary: the entry is added to the routing entries the
\* alias has
ConfigureCanary_Adds(a, mainVersion, canaryVersion, weight) ==
    alias' = [alias EXCEPT ![a] = [version |-> mainVersion,
                                   routing |-> alias[a].routing
                                                 \cup {<<canaryVersion, weight>>}]]

\* Client.ConfigureCanary: sets the version and the single routing entry
ConfigureCanary(a, mainVersion, canaryVersion, weight) ==
    alias' = [alias EXCEPT ![a] = [version |-> mainVersion,
                                   routing |-> {<<canaryVersion, weight>>}]]

\* Client.CheckCanaryActive: a failed read reports "no canary active"
CheckCanaryActive(a, readOk) ==
    IF ~readOk THEN FALSE
    ELSE alias[a].routing # {}

Init ==
    /\ alias = [a \in AliasNames |-> [version |-> 1, routing |-> {}]]
    /\ published = 1
    /\ budget = [p \in Operators |-> MaxOtherCommands]
    /\ probe = NoProbe
    /\ proc = [p \in Operators |->
                 [cmd |-> "none", pc |-> "idle", exitCode |-> -1,
                  percent |-> 0, skipCanary |-> FALSE, switchVersion |-> NoVersion,
                  steps |-> << >>, i |-> 0,
                  liveVersion |-> NoVersion, latestVersion |-> NoVersion,
                  previousVersion |-> NoVersion, newVersion |-> NoVersion,
                  autoWait |-> 0, appended |-> << >>, warned |-> FALSE,
                  err |-> "none", report |-> "none",
                  calls |-> << >>, waits |-> 0,
                  pre |-> [a \in AliasNames |-> [version |-> 1, routing |-> {}]]]]

At(p, c, l) == proc[p].cmd = c /\ proc[p].pc = l
Step(p, r) == proc' = [proc EXCEPT ![p] = r]

\* ------------------------------------------------------------ deploy
\* runDeploy, steps 1-4: environment, function name, client
StartDeploy(p) ==
    /\ CanStart(p)
    /\ \E setup \in Setups :
         LET code == Preamble(setup, TRUE)
             r == Fresh("deploy")
         IN  Step(p, IF code # -1 THEN Exit(r, code)
                     ELSE [r EXCEPT !.pc = "check_canary"])
    /\ UNCHANGED <<alias, published>>

\* mutant of DeployCheckCanary: an active canary does not stop the deploy
DeployCheckCanary_NoRefusal(p) ==
    /\ At(p, "deploy", "check_canary")
    /\ \E readOk \in BOOLEAN :
         LET r == Log(proc[p], Call("get_alias", "live", NoVersion, 0, readOk))
         IN  Step(p, [r EXCEPT !.pc = "sam_build"])
    /\ UNCHANGED <<alias, published>>

\* runDeploy, step 5: refuse while a canary is active on live
DeployCheckCanary(p) ==
    /\ At(p, "deploy", "check_canary")
    /\ \E readOk \in BOOLEAN :
         LET r == Log(proc[p], Call("get_alias", "live", NoVersion, 0, readOk))
         IN  Step(p, IF CheckCanaryActive("live", readOk)
                     THEN Exit(r, ParamError)
                     ELSE [r EXCEPT !.pc = "sam_build"])
    /\ UNCHANGED <<alias, published>>

\* runDeploy, step 6: sam build
DeploySamBuild(p) ==
    /\ At(p, "deploy", "sam_build")
    /\ \E ok \in BOOLEAN :
         Step(p, IF ok THEN [proc[p] EXCEPT !.pc = "sam_deploy"]
                 ELSE Exit(proc[p], AWSError))
    /\ UNCHANGED <<alias, published>>

\* runDeploy, step 7: sam deploy
DeploySamDeploy(p) ==
    /\ At(p, "deploy", "sam_deploy")
    /\ \E ok \in BOOLEAN :
         Step(p, IF ok THEN [proc[p] EXCEPT !.pc = "publish"]
                 ELSE Exit(proc[p], AWSError))
    /\ UNCHANGED <<alias, published>>

\* runDeploy, step 8: Client.CreateVersion; a failure exits with AWSError
DeployCreateVersion(p) ==
    /\ At(p, "deploy", "publish")
    /\ \/ /\ published < MaxVersion
          /\ published' = published + 1
          /\ Step(p, [Log(proc[p], Call("publish_version", "", published + 1, 0, TRUE))
                        EXCEPT !.newVersion = published + 1, !.pc = "update_latest"])
       \/ /\ \E err \in ErrKinds :
               Step(p, ExitWith(Log(proc[p], Call("publish_version", "", NoVersion, 0, FALSE)),
                            err, AWSError))
          /\ UNCHANGED published
    /\ UNCHANGED alias

\* mutant of DeployUpdateLatest: the new version goes to live
DeployUpdateLatest_OnLive(p) ==
    /\ At(p, "deploy", "update_latest")
    /\ \/ /\ UpdateAlias("live", proc[p].newVersion)
          /\ Step(p, Exit(Log(proc[p],
                              Call("update_alias", "latest", proc[p].newVersion, 0, TRUE)),
                          Success))
       \/ /\ \E err \in ErrKinds :
               Step(p, Fail(Log(proc[p],
                                Call("update_alias", "latest", proc[p].newVersion, 0, FALSE)),
                            err))
          /\ UNCHANGED alias
    /\ UNCHANGED published

\* runDeploy, step 9: latest <- the new version
DeployUpdateLatest(p) ==
    /\ At(p, "deploy", "update_latest")
    /\ \/ /\ UpdateAlias("latest", proc[p].newVersion)
          /\ Step(p, Exit(Log(proc[p],
                              Call("update_alias", "latest", proc[p].newVersion, 0, TRUE)),
                          Success))
       \/ /\ \E err \in ErrKinds :
               Step(p, Fail(Log(proc[p],
                                Call("update_alias", "latest", proc[p].newVersion, 0, FALSE)),
                            err))
          /\ UNCHANGED alias
    /\ UNCHANGED published

\* ------------------------------------------------------------ canary
\* mutant of StartCanary: --percent is not looked at
StartCanary_NoPercentCheck(p) ==
    /\ CanStart(p)
    /\ \E setup \in Setups, percent \in CanaryPercents :
         LET code == Preamble(setup, TRUE)
             r == [Fresh("canary") EXCEPT !.percent = percent]
         IN  Step(p, IF code # -1 THEN Exit(r, code)
                     ELSE [r EXCEPT !.pc = "get_live"])
    /\ UNCHANGED <<alias, published>>

\* runCanary, steps 1-5: environment, --percent in 0..100, function name, client
StartCanary(p) ==
    /\ CanStart(p)
    /\ \E setup \in Setups, percent \in CanaryPercents :
         LET code == Preamble(setup, ~(percent < 0 \/ percent > 100))
             r == [Fresh("canary") EXCEPT !.percent = percent]
         IN  Step(p, IF code # -1 THEN Exit(r, code)
                     ELSE [r EXCEPT !.pc = "get_live"])
    /\ UNCHANGED <<alias, published>>

\* runCanary, step 6a: read live
CanaryGetLive(p) ==
    /\ At(p, "canary", "get_live")
    /\ \/ Step(p, [Log(proc[p], Call("get_alias", "live", NoVersion, 0, TRUE))
                     EXCEPT !.liveVersion = alias["live"].version, !.pc = "get_latest"])
       \/ \E err \in ErrKinds :
            Step(p, Fail(Log(proc[p], Call("get_alias", "live", NoVersion, 0, FALSE)),
                         err))
    /\ UNCHANGED <<alias, published>>

\* mutant of CanaryGetLatest: live = latest is refused for every percent
CanaryGetLatest_NoClearException(p) ==
    /\ At(p, "canary", "get_latest")
    /\ \/ LET r == [Log(proc[p], Call("get_alias", "latest", NoVersion, 0, TRUE))
                      EXCEPT !.latestVersion = alias["latest"].version]
          IN  Step(p, IF r.liveVersion = r.latestVersion
                      THEN Exit(r, ParamError)
                      ELSE [r EXCEPT !.pc = "configure"])
       \/ \E err \in ErrKinds :
            Step(p, Fail(Log(proc[p], Call("get_alias", "latest", NoVersion, 0, FALSE)),
                         err))
    /\ UNCHANGED <<alias, published>>

\* mutant of CanaryGetLatest: live = latest is not refused
CanaryGetLatest_NoEqualCheck(p) ==
    /\ At(p, "canary", "get_latest")
    /\ \/ Step(p, [Log(proc[p], Call("get_alias", "latest", NoVersion, 0, TRUE))
                     EXCEPT !.latestVersion = alias["latest"].version,
                            !.pc = "configure"])
       \/ \E err \in ErrKinds :
            Step(p, Fail(Log(proc[p], Call("get_alias", "latest", NoVersion, 0, FALSE)),
                         err))
    /\ UNCHANGED <<alias, published>>

\* runCanary, steps 6b-7: read latest; live = latest is refused unless percent = 0
CanaryGetLatest(p) ==
    /\ At(p, "canary", "get_latest")
    /\ \/ LET r == [Log(proc[p], Call("get_alias", "latest", NoVersion, 0, TRUE))
                      EXCEPT !.latestVersion = alias["latest"].version]
          IN  Step(p, IF r.liveVersion = r.latestVersion /\ r.percent # 0
                      THEN Exit(r, ParamError)
                      ELSE [r EXCEPT !.pc = "configure"])
       \/ \E err \in ErrKinds :
            Step(p, Fail(Log(proc[p], Call("get_alias", "latest", NoVersion, 0, FALSE)),
                         err))
    /\ UNCHANGED <<alias, published>>

\* mutant of CanaryConfigure: percent = 0 is written as a routing entry too
CanaryConfigure_NoClearBranch(p) ==
    /\ At(p, "canary", "configure")
    /\ LET r == proc[p]
           c(ok) == CanaryCall(r.liveVersion, r.latestVersion, r.percent, ok)
       IN  \/ /\ ConfigureCanary("live", r.liveVersion, r.latestVersion, r.percent)
              /\ Step(p, Exit(Log(r, c(TRUE)), Success))
           \/ /\ \E err \in ErrKinds :
                   Step(p, Fail(Log(r, c(FALSE)), err))
              /\ UNCHANGED alias
    /\ UNCHANGED published

\* runCanary, step 9: percent = 0 clears the routing, any other sets the entry
CanaryConfigure(p) ==
    /\ At(p, "canary", "configure")
    /\ LET r == proc[p]
           c(ok) == IF r.percent = 0
                    THEN Call("update_alias", "live", r.liveVersion, 0, ok)
                    ELSE CanaryCall(r.liveVersion, r.latestVersion, r.percent, ok)
       IN  \/ /\ IF r.percent = 0
                 THEN UpdateAlias("live", r.liveVersion)
                 ELSE ConfigureCanary("live", r.liveVersion, r.latestVersion, r.percent)
              /\ Step(p, Exit(Log(r, c(TRUE)), Success))
           \/ /\ \E err \in ErrKinds :
                   Step(p, Fail(Log(r, c(FALSE)), err))
              /\ UNCHANGED alias
    /\ UNCHANGED published

\* ------------------------------------------------------------ promote
\* runPromote, steps 1-4: environment, function name, client
StartPromote(p) ==
    /\ CanStart(p)
    /\ \E setup \in Setups, skipCanary \in BOOLEAN :
         LET code == Preamble(setup, TRUE)
             r == [Fresh("promote") EXCEPT !.skipCanary = skipCanary]
         IN  Step(p, IF code # -1 THEN Exit(r, code)
                     ELSE [r EXCEPT !.pc = "get_live"])
    /\ UNCHANGED <<alias, published>>

\* runPromote, step 5a: read live
PromoteGetLive(p) ==
    /\ At(p, "promote", "get_live")
    /\ \/ Step(p, [Log(proc[p], Call("get_alias", "live", NoVersion, 0, TRUE))
                     EXCEPT !.liveVersion = alias["live"].version, !.pc = "get_latest"])
       \/ \E err \in ErrKinds :
            Step(p, Fail(Log(proc[p], Call("get_alias", "live", NoVersion, 0, FALSE)),
                         err))
    /\ UNCHANGED <<alias, published>>

\* mutant of PromoteGetLatest: live = latest is promoted like any other state
PromoteGetLatest_NoNoop(p) ==
    /\ At(p, "promote", "get_latest")
    /\ \/ LET r == [Log(proc[p], Call("get_alias", "latest", NoVersion, 0, TRUE))
                      EXCEPT !.latestVersion = alias["latest"].version]
          IN  Step(p, IF r.skipCanary THEN [r EXCEPT !.pc = "update_previous"]
                      ELSE [r EXCEPT !.pc = "check_canary"])
       \/ \E err \in ErrKinds :
            Step(p, Fail(Log(proc[p], Call("get_alias", "latest", NoVersion, 0, FALSE)),
                         err))
    /\ UNCHANGED <<alias, published>>

\* runPromote, steps 5b-6: read latest; live = latest returns without a change
PromoteGetLatest(p) ==
    /\ At(p, "promote", "get_latest")
    /\ \/ LET r == [Log(proc[p], Call("get_alias", "latest", NoVersion, 0, TRUE))
                      EXCEPT !.latestVersion = alias["latest"].version]
          IN  Step(p, IF r.liveVersion = r.latestVersion
                      THEN Exit(r, Success)
                      ELSE IF r.skipCanary THEN [r EXCEPT !.pc = "update_previous"]
                      ELSE [r EXCEPT !.pc = "check_canary"])
       \/ \E err \in ErrKinds :
            Step(p, Fail(Log(proc[p], Call("get_alias", "latest", NoVersion, 0, FALSE)),
                         err))
    /\ UNCHANGED <<alias, published>>

\* runPromote, step 7: the canary check only chooses the message printed
PromoteCheckCanary(p) ==
    /\ At(p, "promote", "check_canary")
    /\ \E readOk \in BOOLEAN :
         Step(p, [Log(proc[p], Call("get_alias", "live", NoVersion, 0, readOk))
                    EXCEPT !.warned = ~CheckCanaryActive("live", readOk),
                           !.pc = "update_previous"])
    /\ UNCHANGED <<alias, published>>

\* mutant of PromoteUpdatePrevious: previous is left where it was
PromoteUpdatePrevious_Skipped(p) ==
    /\ At(p, "promote", "update_previous")
    /\ Step(p, [proc[p] EXCEPT !.pc = "update_live"])
    /\ UNCHANGED <<alias, published>>

\* runPromote, step 8: previous <- the live version read in step 5
PromoteUpdatePrevious(p) ==
    /\ At(p, "promote", "update_previous")
    /\ LET r == proc[p]
           c(ok) == Call("update_alias", "previous", r.liveVersion, 0, ok)
       IN  \/ /\ UpdateAlias("previous", r.liveVersion)
              /\ Step(p, [Log(r, c(TRUE)) EXCEPT !.pc = "update_live"])
           \/ /\ \E err \in ErrKinds :
                   Step(p, Fail(Log(r, c(FALSE)), err))
              /\ UNCHANGED alias
    /\ UNCHANGED published

\* runPromote, step 9: live <- the latest version read in step 5, routing cleared
PromoteUpdateLive(p) ==
    /\ At(p, "promote", "update_live")
    /\ LET r == proc[p]
           c(ok) == Call("update_alias", "live", r.latestVersion, 0, ok)
       IN  \/ /\ UpdateAlias("live", r.latestVersion)
              /\ Step(p, Exit(Log(r, c(TRUE)), Success))
           \/ /\ \E err \in ErrKinds :
                   Step(p, Fail(Log(r, c(FALSE)), err))
              /\ UNCHANGED alias
    /\ UNCHANGED published

\* ------------------------------------------------------------ rollback
\* runRollback, steps 1-4: environment, function name, client
StartRollback(p) ==
    /\ CanStart(p)
    /\ \E setup \in Setups :
         LET code == Preamble(setup, TRUE)
             r == Fresh("rollback")
         IN  Step(p, IF code # -1 THEN Exit(r, code)
                     ELSE [r EXCEPT !.pc = "get_live"])
    /\ UNCHANGED <<alias, published>>

\* runRollback, step 5a: read live
RollbackGetLive(p) ==
    /\ At(p, "rollback", "get_live")
    /\ \/ Step(p, [Log(proc[p], Call("get_alias", "live", NoVersion, 0, TRUE))
                     EXCEPT !.liveVersion = alias["live"].version, !.pc = "get_previous"])
       \/ \E err \in ErrKinds :
            Step(p, Fail(Log(proc[p], Call("get_alias", "live", NoVersion, 0, FALSE)),
                         err))
    /\ UNCHANGED <<alias, published>>

\* mutant of RollbackGetPrevious: live = previous is rolled back like any other state
RollbackGetPrevious_NoNoop(p) ==
    /\ At(p, "rollback", "get_previous")
    /\ \/ Step(p, [Log(proc[p], Call("get_alias", "previous", NoVersion, 0, TRUE))
                     EXCEPT !.previousVersion = alias["previous"].version,
                            !.pc = "update_live"])
       \/ \E err \in ErrKinds :
            Step(p, Fail(Log(proc[p], Call("get_alias", "previous", NoVersion, 0, FALSE)),
                         err))
    /\ UNCHANGED <<alias, published>>

\* runRollback, steps 5b-6: read previous; live = previous exits without a change
RollbackGetPrevious(p) ==
    /\ At(p, "rollback", "get_previous")
    /\ \/ LET r == [Log(proc[p], Call("get_alias", "previous", NoVersion, 0, TRUE))
                      EXCEPT !.previousVersion = alias["previous"].version]
          IN  Step(p, IF r.liveVersion = r.previousVersion
                      THEN Exit(r, Success)
                      ELSE [r EXCEPT !.pc = "update_live"])
       \/ \E err \in ErrKinds :
            Step(p, Fail(Log(proc[p], Call("get_alias", "previous", NoVersion, 0, FALSE)),
                         err))
    /\ UNCHANGED <<alias, published>>

\* runRollback, step 7: live <- previous's version, routing cleared
RollbackUpdateLive(p) ==
    /\ At(p, "rollback", "update_live")
    /\ LET r == proc[p]
           c(ok) == Call("update_alias", "live", r.previousVersion, 0, ok)
       IN  \/ /\ UpdateAlias("live", r.previousVersion)
              /\ Step(p, [Log(r, c(TRUE)) EXCEPT !.pc = "update_latest"])
           \/ /\ \E err \in ErrKinds :
                   Step(p, Fail(Log(r, c(FALSE)), err))
              /\ UNCHANGED alias
    /\ UNCHANGED published

\* mutant of RollbackUpdateLatest: latest is not brought back to previous
RollbackUpdateLatest_Skipped(p) ==
    /\ At(p, "rollback", "update_latest")
    /\ Step(p, [proc[p] EXCEPT !.pc = "append_log"])
    /\ UNCHANGED <<alias, published>>

\* mutant of RollbackUpdateLatest: latest <- the live version read in step 5
RollbackUpdateLatest_OldLive(p) ==
    /\ At(p, "rollback", "update_latest")
    /\ LET r == proc[p]
           c(ok) == Call("update_alias", "latest", r.liveVersion, 0, ok)
       IN  \/ /\ UpdateAlias("latest", r.liveVersion)
              /\ Step(p, [Log(r, c(TRUE)) EXCEPT !.pc = "append_log"])
           \/ /\ \E err \in ErrKinds :
                   Step(p, Fail(Log(r, c(FALSE)), err))
              /\ UNCHANGED alias
    /\ UNCHANGED published

\* runRollback, step 8: latest <- previous's version
RollbackUpdateLatest(p) ==
    /\ At(p, "rollback", "update_latest")
    /\ LET r == proc[p]
           c(ok) == Call("update_alias", "latest", r.previousVersion, 0, ok)
       IN  \/ /\ UpdateAlias("latest", r.previousVersion)
              /\ Step(p, [Log(r, c(TRUE)) EXCEPT !.pc = "append_log"])
           \/ /\ \E err \in ErrKinds :
                   Step(p, Fail(Log(r, c(FALSE)), err))
              /\ UNCHANGED alias
    /\ UNCHANGED published

\* mutant of RollbackAppendToFile: a log that cannot be written ends the run
\* with an error
RollbackAppendToFile_Fatal(p) ==
    /\ At(p, "rollback", "append_log")
    /\ LET r == proc[p]
           line == [from |-> r.liveVersion, to |-> r.previousVersion]
       IN  \E ok \in BOOLEAN :
             Step(p, IF ok THEN Exit([r EXCEPT !.appended = Append(@, line)], Success)
                     ELSE Exit([r EXCEPT !.warned = TRUE], AWSError))
    /\ UNCHANGED <<alias, published>>

\* runRollback, step 8 (log): RollbackLog.AppendToFile; a failure only warns.
\* appended holds the lines this run has added to rollback.log.
RollbackAppendToFile(p) ==
    /\ At(p, "rollback", "append_log")
    /\ LET r == proc[p]
           line == [from |-> r.liveVersion, to |-> r.previousVersion]
       IN  \E ok \in BOOLEAN :
             Step(p, IF ok THEN Exit([r EXCEPT !.appended = Append(@, line)], Success)
                     ELSE Exit([r EXCEPT !.warned = TRUE], Success))
    /\ UNCHANGED <<alias, published>>

\* ------------------------------------------------------------ switch
\* runSwitch, steps 1-6: --version given, environment, function name, client
StartSwitch(p) ==
    /\ CanStart(p)
    /\ \E setup \in Setups, switchVersion \in SwitchVersions :
         LET code == IF switchVersion = NoVersion THEN ParamError
                     ELSE Preamble(setup, TRUE)
             r == [Fresh("switch") EXCEPT !.switchVersion = switchVersion]
         IN  Step(p, IF code # -1 THEN Exit(r, code)
                     ELSE [r EXCEPT !.pc = "verify"])
    /\ UNCHANGED <<alias, published>>

\* mutant of SwitchVerifyVersionExists: the version is taken as existing
SwitchVerifyVersionExists_Skipped(p) ==
    /\ At(p, "switch", "verify")
    /\ LET r == proc[p]
           c(ok) == Call("get_function", "", r.switchVersion, 0, ok)
       IN  \/ Step(p, [Log(r, c(TRUE)) EXCEPT !.pc = "get_live"])
           \/ \E err \in ErrKinds \ {"notfound"} :
                Step(p, Fail(Log(r, c(FALSE)), err))
    /\ UNCHANGED <<alias, published>>

\* runSwitch, step 7: Client.VerifyVersionExists; a version that was never
\* published is answered with a resource-not-found error
SwitchVerifyVersionExists(p) ==
    /\ At(p, "switch", "verify")
    /\ LET r == proc[p]
           c(ok) == Call("get_function", "", r.switchVersion, 0, ok)
       IN  \/ /\ r.switchVersion \in 1..published
              /\ Step(p, [Log(r, c(TRUE)) EXCEPT !.pc = "get_live"])
           \/ /\ r.switchVersion \notin 1..published
              /\ Step(p, Fail(Log(r, c(FALSE)), "notfound"))
           \/ \E err \in ErrKinds \ {"notfound"} :
                Step(p, Fail(Log(r, c(FALSE)), err))
    /\ UNCHANGED <<alias, published>>

\* mutant of SwitchGetLive: live already on the target is refused
SwitchGetLive_RefusesSame(p) ==
    /\ At(p, "switch", "get_live")
    /\ \/ LET r == [Log(proc[p], Call("get_alias", "live", NoVersion, 0, TRUE))
                      EXCEPT !.liveVersion = alias["live"].version]
          IN  Step(p, IF r.liveVersion = r.switchVersion
                      THEN Exit(r, ParamError)
                      ELSE [r EXCEPT !.pc = "update_live"])
       \/ \E err \in ErrKinds :
            Step(p, Fail(Log(proc[p], Call("get_alias", "live", NoVersion, 0, FALSE)),
                         err))
    /\ UNCHANGED <<alias, published>>

\* mutant of SwitchGetLive: live already on the target is updated all the same
SwitchGetLive_NoNoop(p) ==
    /\ At(p, "switch", "get_live")
    /\ \/ Step(p, [Log(proc[p], Call("get_alias", "live", NoVersion, 0, TRUE))
                     EXCEPT !.liveVersion = alias["live"].version, !.pc = "update_live"])
       \/ \E err \in ErrKinds :
            Step(p, Fail(Log(proc[p], Call("get_alias", "live", NoVersion, 0, FALSE)),
                         err))
    /\ UNCHANGED <<alias, published>>

\* runSwitch, steps 8-9: read live; live already on the target exits without a change
SwitchGetLive(p) ==
    /\ At(p, "switch", "get_live")
    /\ \/ LET r == [Log(proc[p], Call("get_alias", "live", NoVersion, 0, TRUE))
                      EXCEPT !.liveVersion = alias["live"].version]
          IN  Step(p, IF r.liveVersion = r.switchVersion
                      THEN Exit(r, Success)
                      ELSE [r EXCEPT !.pc = "update_live"])
       \/ \E err \in ErrKinds :
            Step(p, Fail(Log(proc[p], Call("get_alias", "live", NoVersion, 0, FALSE)),
                         err))
    /\ UNCHANGED <<alias, published>>

\* mutant of SwitchUpdateLive: previous <- the live version read, as promote does
SwitchUpdateLive_AlsoPrevious(p) ==
    /\ At(p, "switch", "update_live")
    /\ LET r == proc[p]
           c(ok) == Call("update_alias", "live", r.switchVersion, 0, ok)
       IN  \/ /\ alias' = [alias EXCEPT
                             !["live"] = [version |-> r.switchVersion, routing |-> {}],
                             !["previous"] = [version |-> r.liveVersion, routing |-> {}]]
              /\ Step(p, Exit(Log(r, c(TRUE)), Success))
           \/ /\ \E err \in ErrKinds :
                   Step(p, Fail(Log(r, c(FALSE)), err))
              /\ UNCHANGED alias
    /\ UNCHANGED published

\* runSwitch, step 10: live <- the target version, routing cleared
SwitchUpdateLive(p) ==
    /\ At(p, "switch", "update_live")
    /\ LET r == proc[p]
           c(ok) == Call("update_alias", "live", r.switchVersion, 0, ok)
       IN  \/ /\ UpdateAlias("live", r.switchVersion)
              /\ Step(p, Exit(Log(r, c(TRUE)), Success))
           \/ /\ \E err \in ErrKinds :
                   Step(p, Fail(Log(r, c(FALSE)), err))
              /\ UNCHANGED alias
    /\ UNCHANGED published

\* ------------------------------------------------------------ auto
\* mutant of StepsFrom: the loop runs while pct <= 100
RECURSIVE StepsFrom_Through100(_, _)
StepsFrom_Through100(pct, autoPercent) ==
    IF pct <= 100 THEN <<pct>> \o StepsFrom_Through100(pct + autoPercent, autoPercent)
    ELSE << >>

\* runAuto, step 5: for pct := autoPercent; pct < 100; pct += autoPercent
RECURSIVE StepsFrom(_, _)
StepsFrom(pct, autoPercent) ==
    IF pct < 100 THEN <<pct>> \o StepsFrom(pct + autoPercent, autoPercent)
    ELSE << >>

\* runAuto, steps 1-6: environment, --percent in 1..100, function name, the
\* steps, client. --wait is taken as given.
StartAuto(p, percents) ==
    /\ CanStart(p)
    /\ \E setup \in Setups, autoPercent \in percents, autoWait \in AutoWaits :
         LET code == Preamble(setup, ~(autoPercent < 1 \/ autoPercent > 100))
             r == [Fresh("auto") EXCEPT !.percent = autoPercent, !.autoWait = autoWait]
         IN  Step(p, IF code # -1 THEN Exit(r, code)
                     ELSE [r EXCEPT !.steps = StepsFrom(autoPercent, autoPercent),
                                    !.pc = "get_live"])
    /\ UNCHANGED <<alias, published>>

\* runAuto, step 7a: read live
AutoGetLive(p) ==
    /\ At(p, "auto", "get_live")
    /\ \/ Step(p, [Log(proc[p], Call("get_alias", "live", NoVersion, 0, TRUE))
                     EXCEPT !.liveVersion = alias["live"].version, !.pc = "get_latest"])
       \/ \E err \in ErrKinds :
            Step(p, Fail(Log(proc[p], Call("get_alias", "live", NoVersion, 0, FALSE)),
                         err))
    /\ UNCHANGED <<alias, published>>

\* runAuto, steps 7b-8: read latest; live = latest is refused
AutoGetLatest(p) ==
    /\ At(p, "auto", "get_latest")
    /\ \/ LET r == [Log(proc[p], Call("get_alias", "latest", NoVersion, 0, TRUE))
                      EXCEPT !.latestVersion = alias["latest"].version]
          IN  Step(p, IF r.liveVersion = r.latestVersion
                      THEN Exit(r, ParamError)
                      ELSE IF Len(r.steps) = 0 THEN [r EXCEPT !.pc = "update_previous"]
                      ELSE [r EXCEPT !.i = 1, !.pc = "configure"])
       \/ \E err \in ErrKinds :
            Step(p, Fail(Log(proc[p], Call("get_alias", "latest", NoVersion, 0, FALSE)),
                         err))
    /\ UNCHANGED <<alias, published>>

\* mutant of AutoConfigure: a failed canary update does not end the run
AutoConfigure_GoesOn(p) ==
    /\ At(p, "auto", "configure")
    /\ LET r == proc[p]
           pct == r.steps[r.i]
           c(ok) == CanaryCall(r.liveVersion, r.latestVersion, pct, ok)
       IN  \/ /\ ConfigureCanary("live", r.liveVersion, r.latestVersion, pct)
              /\ Step(p, [Log(r, c(TRUE)) EXCEPT !.pc = "sleep"])
           \/ /\ Step(p, [Log(r, c(FALSE)) EXCEPT !.pc = "sleep"])
              /\ UNCHANGED alias
    /\ UNCHANGED published

\* runAuto, step 9 (loop body, first half): the canary update of steps[i]
AutoConfigure(p) ==
    /\ At(p, "auto", "configure")
    /\ LET r == proc[p]
           pct == r.steps[r.i]
           c(ok) == CanaryCall(r.liveVersion, r.latestVersion, pct, ok)
       IN  \/ /\ ConfigureCanary("live", r.liveVersion, r.latestVersion, pct)
              /\ Step(p, [Log(r, c(TRUE)) EXCEPT !.pc = "sleep"])
           \/ /\ \E err \in ErrKinds :
                   Step(p, Fail(Log(r, c(FALSE)), err))
              /\ UNCHANGED alias
    /\ UNCHANGED published

\* mutant of AutoSleep: the sleep does not return
AutoSleep_Never(p) ==
    /\ At(p, "auto", "sleep")
    /\ Step(p, proc[p])
    /\ UNCHANGED <<alias, published>>

\* mutant of AutoSleep: no sleep after the last step of the loop
AutoSleep_SkipLast(p) ==
    /\ At(p, "auto", "sleep")
    /\ LET r == proc[p]
       IN  Step(p, IF r.i < Len(r.steps)
                   THEN [r EXCEPT !.waits = @ + 1, !.i = @ + 1, !.pc = "configure"]
                   ELSE [r EXCEPT !.pc = "update_previous"])
    /\ UNCHANGED <<alias, published>>

\* runAuto, step 9 (loop body, second half): time.Sleep(autoWait), then the
\* next step, or the promote phase after the last one
AutoSleep(p) ==
    /\ At(p, "auto", "sleep")
    /\ LET r == [proc[p] EXCEPT !.waits = @ + 1]
       IN  Step(p, IF r.i < Len(r.steps)
                   THEN [r EXCEPT !.i = @ + 1, !.pc = "configure"]
                   ELSE [r EXCEPT !.pc = "update_previous"])
    /\ UNCHANGED <<alias, published>>

\* mutant of AutoUpdatePrevious: previous <- the version live points to now
AutoUpdatePrevious_Reread(p) ==
    /\ At(p, "auto", "update_previous")
    /\ LET r == proc[p]
           c(ok) == Call("update_alias", "previous", alias["live"].version, 0, ok)
       IN  \/ /\ UpdateAlias("previous", alias["live"].version)
              /\ Step(p, [Log(r, c(TRUE)) EXCEPT !.pc = "update_live"])
           \/ /\ \E err \in ErrKinds :
                   Step(p, Fail(Log(r, c(FALSE)), err))
              /\ UNCHANGED alias
    /\ UNCHANGED published

\* runAuto, step 10a: previous <- the live version read in step 7
AutoUpdatePrevious(p) ==
    /\ At(p, "auto", "update_previous")
    /\ LET r == proc[p]
           c(ok) == Call("update_alias", "previous", r.liveVersion, 0, ok)
       IN  \/ /\ UpdateAlias("previous", r.liveVersion)
              /\ Step(p, [Log(r, c(TRUE)) EXCEPT !.pc = "update_live"])
           \/ /\ \E err \in ErrKinds :
                   Step(p, Fail(Log(r, c(FALSE)), err))
              /\ UNCHANGED alias
    /\ UNCHANGED published

\* mutant of AutoUpdateLive: live <- the version latest points to now
AutoUpdateLive_Reread(p) ==
    /\ At(p, "auto", "update_live")
    /\ LET r == proc[p]
           c(ok) == Call("update_alias", "live", alias["latest"].version, 0, ok)
       IN  \/ /\ UpdateAlias("live", alias["latest"].version)
              /\ Step(p, Exit(Log(r, c(TRUE)), Success))
           \/ /\ \E err \in ErrKinds :
                   Step(p, Fail(Log(r, c(FALSE)), err))
              /\ UNCHANGED alias
    /\ UNCHANGED published

\* runAuto, step 10b: live <- the latest version read in step 7, routing cleared
AutoUpdateLive(p) ==
    /\ At(p, "auto", "update_live")
    /\ LET r == proc[p]
           c(ok) == Call("update_alias", "live", r.latestVersion, 0, ok)
       IN  \/ /\ UpdateAlias("live", r.latestVersion)
              /\ Step(p, Exit(Log(r, c(TRUE)), Success))
           \/ /\ \E err \in ErrKinds :
                   Step(p, Fail(Log(r, c(FALSE)), err))
              /\ UNCHANGED alias
    /\ UNCHANGED published

\* ------------------------------------------------------------ status
\* what runStatus shows for an alias it could not read ("未配置")
Unconfigured == -1

\* runStatus, steps 1-4: environment, function name, client
StartStatus(p) ==
    /\ CanStart(p)
    /\ \E setup \in Setups :
         LET code == Preamble(setup, TRUE)
             r == Fresh("status")
         IN  Step(p, IF code # -1 THEN Exit(r, code)
                     ELSE [r EXCEPT !.pc = "get_live"])
    /\ UNCHANGED <<alias, published>>

\* runStatus, step 5a: read live; a failed read is shown as not configured
StatusGetLive(p) ==
    /\ At(p, "status", "get_live")
    /\ \E ok \in BOOLEAN :
         Step(p, [Log(proc[p], Call("get_alias", "live", NoVersion, 0, ok))
                    EXCEPT !.liveVersion = IF ok THEN alias["live"].version
                                           ELSE Unconfigured,
                           !.pc = "get_previous"])
    /\ UNCHANGED <<alias, published>>

\* runStatus, step 5b: read previous
StatusGetPrevious(p) ==
    /\ At(p, "status", "get_previous")
    /\ \E ok \in BOOLEAN :
         Step(p, [Log(proc[p], Call("get_alias", "previous", NoVersion, 0, ok))
                    EXCEPT !.previousVersion = IF ok THEN alias["previous"].version
                                               ELSE Unconfigured,
                           !.pc = "get_latest"])
    /\ UNCHANGED <<alias, published>>

\* runStatus, step 5c: read latest
StatusGetLatest(p) ==
    /\ At(p, "status", "get_latest")
    /\ \E ok \in BOOLEAN :
         Step(p, [Log(proc[p], Call("get_alias", "latest", NoVersion, 0, ok))
                    EXCEPT !.latestVersion = IF ok THEN alias["latest"].version
                                             ELSE Unconfigured,
                           !.pc = "check_canary"])
    /\ UNCHANGED <<alias, published>>

\* the class runStatus reports (step 6)
StatusReport(active, liveVersion, latestVersion) ==
    IF active THEN "canary"
    ELSE IF liveVersion # Unconfigured /\ latestVersion # Unconfigured
         THEN IF liveVersion = latestVersion THEN "stable" ELSE "pending"
         ELSE "unconfigured"

\* mutant of StatusCheckCanary: the routing configuration is not looked at
StatusCheckCanary_IgnoresCanary(p) ==
    /\ At(p, "status", "check_canary")
    /\ \E readOk \in BOOLEAN :
         LET r == Log(proc[p], Call("get_alias", "live", NoVersion, 0, readOk))
         IN  Step(p, Exit([r EXCEPT !.report =
                                StatusReport(FALSE, r.liveVersion, r.latestVersion)],
                          Success))
    /\ UNCHANGED <<alias, published>>

\* runStatus, step 6: the canary check and the report; the run returns normally
StatusCheckCanary(p) ==
    /\ At(p, "status", "check_canary")
    /\ \E readOk \in BOOLEAN :
         LET r == Log(proc[p], Call("get_alias", "live", NoVersion, 0, readOk))
         IN  Step(p, Exit([r EXCEPT !.report =
                                StatusReport(CheckCanaryActive("live", readOk),
                                             r.liveVersion, r.latestVersion)],
                          Success))
    /\ UNCHANGED <<alias, published>>

StatusRun(p) ==
    \/ StatusGetLive(p) \/ StatusGetPrevious(p) \/ StatusGetLatest(p)
    \/ StatusCheckCanary(p)

Status(p) == StartStatus(p) \/ StatusRun(p)

\* ------------------------------------------------------------ specifications
DeployRun(p) ==
    \/ DeployCheckCanary(p) \/ DeploySamBuild(p) \/ DeploySamDeploy(p)
    \/ DeployCreateVersion(p) \/ DeployUpdateLatest(p)

CanaryRun(p) ==
    \/ CanaryGetLive(p) \/ CanaryGetLatest(p) \/ CanaryConfigure(p)

PromoteRun(p) ==
    \/ PromoteGetLive(p) \/ PromoteGetLatest(p) \/ PromoteCheckCanary(p)
    \/ PromoteUpdatePrevious(p) \/ PromoteUpdateLive(p)

RollbackRun(p) ==
    \/ RollbackGetLive(p) \/ RollbackGetPrevious(p) \/ RollbackUpdateLive(p)
    \/ RollbackUpdateLatest(p) \/ RollbackAppendToFile(p)

SwitchRun(p) ==
    \/ SwitchVerifyVersionExists(p) \/ SwitchGetLive(p) \/ SwitchUpdateLive(p)

AutoRun(p) ==
    \/ AutoGetLive(p) \/ AutoGetLatest(p) \/ AutoConfigure(p) \/ AutoSleep(p)
    \/ AutoUpdatePrevious(p) \/ AutoUpdateLive(p)

Deploy(p) == StartDeploy(p) \/ DeployRun(p)
Canary(p) == StartCanary(p) \/ CanaryRun(p)
Promote(p) == StartPromote(p) \/ PromoteRun(p)
Rollback(p) == StartRollback(p) \/ RollbackRun(p)
Switch(p) == StartSwitch(p) \/ SwitchRun(p)

\* One operator runs one command after the other; any service call may fail.
Next ==
    /\ \/ Deploy(1) \/ Canary(1) \/ Promote(1) \/ Rollback(1) \/ Switch(1)
       \/ StartAuto(1, AutoPercents) \/ AutoRun(1)
    /\ UNCHANGED <<budget, probe>>

Spec == Init /\ [][Next]_vars

\* --percent values of auto in the specification of auto alone: every valid
\* step and both outsides
AllAutoPercents == 0..101

\* One operator deploys and sets canaries, then runs auto once, with any step;
\* any service call may fail.
NextAuto ==
    /\ \/ /\ proc[1].cmd # "auto"
          /\ (Deploy(1) \/ Canary(1) \/ StartAuto(1, AllAutoPercents))
       \/ AutoRun(1)
    /\ UNCHANGED <<budget, probe>>

SpecAuto == Init /\ [][NextAuto]_vars

\* a started auto run goes on: the process is scheduled, its service calls
\* return and its sleeps end
AutoGoesOn == AutoRun(1) /\ UNCHANGED <<budget, probe>>

SpecAutoFair == SpecAuto /\ WF_vars(AutoGoesOn)

\* --percent values of auto in the specification of auto with a second
\* operator: one and two waits
RaceAutoPercents == {40, 50}

\* Operator 1 deploys and promotes, then runs auto once; while the auto run
\* sleeps, operator 2 runs whole commands. Operator 1 wakes up when operator 2
\* is between commands.
NextRace ==
    \/ /\ proc[1].cmd # "auto"
       /\ (Deploy(1) \/ Promote(1) \/ StartAuto(1, RaceAutoPercents))
       /\ UNCHANGED <<budget, probe>>
    \/ /\ CanStart(2)
       /\ AutoRun(1)
       /\ UNCHANGED <<budget, probe>>
    \/ /\ proc[1].pc = "sleep"
       /\ budget[2] > 0
       /\ \/ StartDeploy(2) \/ StartCanary(2) \/ StartPromote(2)
          \/ StartRollback(2) \/ StartSwitch(2)
       /\ budget' = [budget EXCEPT ![2] = @ - 1]
       /\ UNCHANGED probe
    \/ /\ proc[1].pc = "sleep"
       /\ (DeployRun(2) \/ CanaryRun(2) \/ PromoteRun(2) \/ RollbackRun(2) \/ SwitchRun(2))
       /\ UNCHANGED <<budget, probe>>

SpecRace == Init /\ [][NextRace]_vars

\* the commands whose repetition is looked at
RepeatCommands == {"promote", "rollback", "switch", "canary"}

\* Two runs, one right after the other: operator 1 runs commands one after
\* the other; once one of them has exited with success, operator 2 runs one
\* command, and nothing else happens from then on. proc[1] is the first run,
\* proc[2] the run that follows it.
NextSeq ==
    /\ \/ /\ proc[2].cmd = "none"
          /\ (Deploy(1) \/ Canary(1) \/ Promote(1) \/ Rollback(1) \/ Switch(1))
       \/ /\ proc[2].cmd = "none"
          /\ proc[1].pc = "done" /\ proc[1].exitCode = Success
          /\ proc[1].cmd \in RepeatCommands
          /\ (StartPromote(2) \/ StartRollback(2) \/ StartSwitch(2) \/ StartCanary(2))
       \/ PromoteRun(2) \/ RollbackRun(2) \/ SwitchRun(2) \/ CanaryRun(2)
    /\ UNCHANGED <<budget, probe>>

SpecSeq == Init /\ [][NextSeq]_vars

\* One operator deploys, sets canaries, promotes and looks at the status, one
\* command after the other; any service call may fail.
NextStatus ==
    /\ \/ Deploy(1) \/ Canary(1) \/ Promote(1) \/ Rollback(1) \/ Status(1)
    /\ UNCHANGED <<budget, probe>>

SpecStatus == Init /\ [][NextStatus]_vars

\* every read of an alias the step makes succeeds
AliasReadsSucceed ==
    \A p \in Operators : \A k \in 1..Len(proc'[p].calls) :
       proc'[p].calls[k].op = "get_alias" => proc'[p].calls[k].ok

\* One operator runs one command after the other; updates, look-ups of a
\* version and builds may fail, reads of an alias do not.
NextReadsOk == Next /\ AliasReadsSucceed

SpecReadsOk == Init /\ [][NextReadsOk]_vars

\* weights of the canary that may be active when two operators start
StartWeights == {50}

\* the alias states two operators may meet: every alias on a published
\* version, live with or without a canary on latest's version (each of them
\* is the outcome of some sequence of deploy, canary, promote, rollback and
\* switch runs of one operator)
StartAliases ==
    {[a \in AliasNames |->
        IF a = "live"
        THEN [version |-> l, routing |-> IF w = 0 THEN {} ELSE {<<n, w>>}]
        ELSE IF a = "latest" THEN [version |-> n, routing |-> {}]
        ELSE [version |-> q, routing |-> {}]] :
       l \in Versions, n \in Versions, q \in Versions,
       w \in {0} \cup StartWeights}

InitConcurrent ==
    /\ alias \in {s \in StartAliases :
                    s["live"].routing # {} => s["live"].version # s["latest"].version}
    /\ published = MaxVersion
    /\ budget = [p \in Operators |-> MaxOtherCommands]
    /\ probe = NoProbe
    /\ proc = [p \in Operators |-> Idle]

\* --percent values of auto when two operators act at once: one step
ConcurrentAutoPercents == {50}

\* --percent values of canary when two operators act at once: the clearing
\* one, one that sets an entry and one that is refused
ConcurrentCanaryPercents == {0, 10, 101}

\* the inputs looked at when two operators act at once: the percents above,
\* an auto run that waits a positive time, and a service call that fails
\* fails with a network error (or with resource-not-found, for switch's
\* look-up of a version never published)
ConcurrentInputs(p) ==
    /\ proc'[p].cmd = "canary" => proc'[p].percent \in ConcurrentCanaryPercents
    /\ proc'[p].autoWait = IF proc'[p].cmd = "auto" THEN 1 ELSE 0
    /\ \/ proc'[p].err \in {"none", "network"}
       \/ proc[p].pc = "verify" /\ proc'[p].err = "notfound"

\* Two operators run one command each at the same time; the service calls of
\* the two runs interleave in any order, and any of them may fail.
NextConcurrent ==
    /\ \E p \in Operators :
         /\ \/ /\ proc[p].cmd = "none"
               /\ \/ StartCanary(p) \/ StartPromote(p) \/ StartRollback(p)
                  \/ StartSwitch(p) \/ StartAuto(p, ConcurrentAutoPercents)
            \/ CanaryRun(p) \/ PromoteRun(p) \/ RollbackRun(p) \/ SwitchRun(p)
            \/ AutoRun(p)
         /\ ConcurrentInputs(p)
    /\ UNCHANGED <<budget, probe>>

SpecConcurrent == InitConcurrent /\ [][NextConcurrent]_vars

\* What the aliases s become when a command runs alone from s and all its
\* service calls succeed: runCanary with --percent pct,
SerialCanary(s, pct) ==
    IF pct < 0 \/ pct > 100 THEN s
    ELSE IF s["live"].version = s["latest"].version /\ pct # 0 THEN s
    ELSE IF pct = 0
         THEN [s EXCEPT !["live"] = [version |-> s["live"].version, routing |-> {}]]
         ELSE [s EXCEPT !["live"] = [version |-> s["live"].version,
                                     routing |-> {<<s["latest"].version, pct>>}]]

\* runPromote,
SerialPromote(s) ==
    IF s["live"].version = s["latest"].version THEN s
    ELSE [s EXCEPT !["previous"] = [version |-> s["live"].version, routing |-> {}],
                   !["live"] = [version |-> s["latest"].version, routing |-> {}]]

\* runRollback,
SerialRollback(s) ==
    IF s["live"].version = s["previous"].version THEN s
    ELSE [s EXCEPT !["live"] = [version |-> s["previous"].version, routing |-> {}],
                   !["latest"] = [version |-> s["previous"].version, routing |-> {}]]

\* runSwitch with --version v,
SerialSwitch(s, v) ==
    IF v = NoVersion \/ s["live"].version = v THEN s
    ELSE [s EXCEPT !["live"] = [version |-> v, routing |-> {}]]

\* and the command of the run r; a run that made no service call (its
\* environment or its arguments were refused) changes nothing
SerialRun(r, s) ==
    IF Len(r.calls) = 0 THEN s
    ELSE CASE r.cmd = "canary" -> SerialCanary(s, r.percent)
           [] r.cmd = "promote" -> SerialPromote(s)
           [] r.cmd = "rollback" -> SerialRollback(s)
           [] r.cmd = "switch" -> SerialSwitch(s, r.switchVersion)
           [] OTHER -> s

\* ------------------------------------------------- the error classifier
\* strings.ToLower, on the letters A..Z
UpperCase == "ABCDEFGHIJKLMNOPQRSTUVWXYZ"
LowerCase == "abcdefghijklmnopqrstuvwxyz"
LowerChar(c) ==
    IF \E i \in 1..Len(UpperCase) : SubSeq(UpperCase, i, i) = c
    THEN LET i == CHOOSE i \in 1..Len(UpperCase) : SubSeq(UpperCase, i, i) = c
         IN  SubSeq(LowerCase, i, i)
    ELSE c

RECURSIVE ToLower(_)
ToLower(s) ==
    IF s = "" THEN ""
    ELSE LowerChar(SubSeq(s, 1, 1)) \o ToLower(SubSeq(s, 2, Len(s)))

\* strings.Contains
Contains(s, substr) ==
    \E i \in 1..(Len(s) - Len(substr) + 1) : SubSeq(s, i, i + Len(substr) - 1) = substr

networkKeywords ==
    << "unable to locate credentials", "could not connect", "connection refused",
       "network", "timeout", "timed out", "unreachable" >>

resourceNotFoundKeywords ==
    << "resourcenotfoundexception", "does not exist", "not found", "cannot find" >>

\* an error value: nil, or an error with the message err.Error()
NilError == [nil |-> TRUE, msg |-> ""]
ErrorOf(msg) == [nil |-> FALSE, msg |-> msg]

\* mutant of classifyErrorOf: the not-found keywords are looked for first
classifyErrorOf_NotFoundFirst(err) ==
    IF err.nil THEN Success
    ELSE LET errMsg == ToLower(err.msg) IN
         IF \E k \in 1..Len(resourceNotFoundKeywords) :
                Contains(errMsg, resourceNotFoundKeywords[k])
         THEN ResourceNotFound
         ELSE IF \E k \in 1..Len(networkKeywords) : Contains(errMsg, networkKeywords[k])
         THEN NetworkError
         ELSE AWSError

\* classifyError, on the error's message: nil, then the network keywords, then
\* the not-found keywords, then the rest
classifyErrorOf(err) ==
    IF err.nil THEN Success
    ELSE LET errMsg == ToLower(err.msg) IN
         IF \E k \in 1..Len(networkKeywords) : Contains(errMsg, networkKeywords[k])
         THEN NetworkError
         ELSE IF \E k \in 1..Len(resourceNotFoundKeywords) :
                    Contains(errMsg, resourceNotFoundKeywords[k])
         THEN ResourceNotFound
         ELSE AWSError

\* Number of fragments an error message is put together from.
MaxParts == 2

\* fragments of error messages: every keyword in some spelling, two halves of
\* a keyword, and text that is no keyword
Fragments ==
    { "Unable to locate credentials", "could not connect", "Connection Refused",
      "net", "work", "TIMEOUT", "timed out", "Unreachable",
      "ResourceNotFoundException", "does not exist", "Not Found", "cannot find",
      "AccessDenied", ": " }

RECURSIVE MessagesOf(_)
MessagesOf(n) ==
    IF n = 0 THEN {""}
    ELSE LET shorter == MessagesOf(n - 1)
         IN  shorter \cup {m \o f : m \in shorter, f \in Fragments}

Errors == {NilError} \cup {ErrorOf(m) : m \in MessagesOf(MaxParts)}

InitClassify ==
    /\ alias = [a \in AliasNames |-> [version |-> 1, routing |-> {}]]
    /\ published = 1
    /\ budget = [p \in Operators |-> MaxOtherCommands]
    /\ proc = [p \in Operators |-> Idle]
    /\ probe \in {[fn |-> "classifyError", err |-> e, returned |-> FALSE, code |-> -1] :
                    e \in Errors}

\* one call of classifyError
Classify ==
    /\ probe.fn = "classifyError" /\ ~probe.returned
    /\ probe' = [probe EXCEPT !.returned = TRUE, !.code = classifyErrorOf(probe.err)]
    /\ UNCHANGED <<alias, published, proc, budget>>

SpecClassify == InitClassify /\ [][Classify]_vars

\* ------------------------------------------------- the strategy table
Canary0 == "canary0"
Canary10 == "canary10"
Canary25 == "canary25"
Canary50 == "canary50"
Canary75 == "canary75"
Canary100 == "canary100"

\* the list of the valid strategies
AllStrategies == <<Canary0, Canary10, Canary25, Canary50, Canary75, Canary100>>

\* CanaryStrategy.Weight, the float64 weight in hundredths; the default
\* branch returns 0
Weight(s) ==
    CASE s = Canary0 -> 0
      [] s = Canary10 -> 10
      [] s = Canary25 -> 25
      [] s = Canary50 -> 50
      [] s = Canary75 -> 75
      [] s = Canary100 -> 100
      [] OTHER -> 0

\* mutant of IsValid: only the four inner strategies are valid
IsValid_Four(s) == s \in {Canary10, Canary25, Canary50, Canary75}

\* CanaryStrategy.IsValid
IsValid(s) == s \in {Canary0, Canary10, Canary25, Canary50, Canary75, Canary100}

\* mutant of NextStrategy: the last strategy wraps around to the first
NextStrategy_Cyclic(s) ==
    CASE s = Canary0 -> Canary10
      [] s = Canary10 -> Canary25
      [] s = Canary25 -> Canary50
      [] s = Canary50 -> Canary75
      [] s = Canary75 -> Canary100
      [] s = Canary100 -> Canary0
      [] OTHER -> Canary10

\* CanaryStrategy.NextStrategy
NextStrategy(s) ==
    CASE s = Canary0 -> Canary10
      [] s = Canary10 -> Canary25
      [] s = Canary25 -> Canary50
      [] s = Canary50 -> Canary75
      [] s = Canary75 -> Canary100
      [] s = Canary100 -> Canary100
      [] OTHER -> Canary10

\* strategy names a caller may pass: CanaryStrategy is a string type, so any
\* string converts to it
StrategyNames ==
    {pre \o suf : pre \in {"canary", "Canary", "canary_", ""},
                  suf \in {"0", "10", "25", "50", "75", "100", "5", ""}}

\* one strategy value; none of its methods has been called yet
InitStrategy ==
    /\ alias = [a \in AliasNames |-> [version |-> 1, routing |-> {}]]
    /\ published = 1
    /\ budget = [p \in Operators |-> MaxOtherCommands]
    /\ proc = [p \in Operators |-> Idle]
    /\ probe \in {[fn |-> "CanaryStrategy", s |-> s, called |-> {},
                   weight |-> -1, valid |-> FALSE, next |-> ""] :
                    s \in StrategyNames}

\* s.Weight()
CallWeight ==
    /\ probe.fn = "CanaryStrategy" /\ "Weight" \notin probe.called
    /\ probe' = [probe EXCEPT !.called = @ \cup {"Weight"},
                              !.weight = Weight(probe.s)]
    /\ UNCHANGED <<alias, published, proc, budget>>

\* s.IsValid()
CallIsValid ==
    /\ probe.fn = "CanaryStrategy" /\ "IsValid" \notin probe.called
    /\ probe' = [probe EXCEPT !.called = @ \cup {"IsValid"},
                              !.valid = IsValid(probe.s)]
    /\ UNCHANGED <<alias, published, proc, budget>>

\* s.NextStrategy()
CallNextStrategy ==
    /\ probe.fn = "CanaryStrategy" /\ "NextStrategy" \notin probe.called
    /\ probe' = [probe EXCEPT !.called = @ \cup {"NextStrategy"},
                              !.next = NextStrategy(probe.s)]
    /\ UNCHANGED <<alias, published, proc, budget>>

NextOfStrategy == CallWeight \/ CallIsValid \/ CallNextStrategy

SpecStrategy == InitStrategy /\ [][NextOfStrategy]_vars

\* ------------------------------------------------------------ claims
Done(p, c) == proc[p].cmd = c /\ proc[p].pc = "done"
Stable(v) == [version |-> v, routing |-> {}]
\* the calls of a run that change something at the service
IsWrite(c) == c.op \in {"update_alias", "configure_canary", "publish_version"}
NoWrites(r) == \A k \in 1..Len(r.calls) : ~IsWrite(r.calls[k])

\* C1: a rollback that starts with live's primary version different from
\* previous's version and whose service calls all succeed ends with live on
\* previous's version without routing, latest on previous's version, and
\* previous as it was.
C1_RollbackEffect ==
    LET r == proc[1] IN
    (Done(1, "rollback") /\ r.exitCode = Success
        /\ r.pre["live"].version # r.pre["previous"].version)
    => /\ alias["live"] = Stable(r.pre["previous"].version)
       /\ alias["latest"].version = r.pre["previous"].version
       /\ alias["previous"] = r.pre["previous"]

\* a rollback that succeeded from a state with a canary active on live and
\* live's primary version different from previous's version
C1_Witness ==
    LET r == proc[1] IN
    /\ Done(1, "rollback") /\ r.exitCode = Success
    /\ r.pre["live"].version # r.pre["previous"].version
    /\ r.pre["live"].routing # {}
    /\ r.pre["latest"].version # r.pre["previous"].version

\* C2: whenever rollback exits with code 0, live sends all traffic to the
\* version previous points to: live's primary version is previous's version
\* and live has no routing entry.
C2_RollbackSuccessMeansLiveOnPrevious ==
    (Done(1, "rollback") /\ proc[1].exitCode = Success)
    => /\ alias["live"].version = alias["previous"].version
       /\ alias["live"].routing = {}

\* C3: a deploy that performs its canary check while a canary is active on
\* live exits with code 1 and calls neither publish_version nor update_alias,
\* also when the read made for the check fails.
C3_DeployRefusedWhileCanary ==
    LET r == proc[1] IN
    (r.cmd = "deploy" /\ Len(r.calls) >= 1 /\ r.pre["live"].routing # {})
    => /\ NoWrites(r)
       /\ r.pc = "done" /\ r.exitCode = ParamError

\* C4: a promote that starts with live's primary version L different from
\* latest's version N and whose service calls all succeed ends with previous
\* on L, live on N without routing, and latest as it was, with or without a
\* canary active beforehand.
C4_PromoteEffect ==
    LET r == proc[1] IN
    (Done(1, "promote") /\ r.exitCode = Success
        /\ r.pre["live"].version # r.pre["latest"].version)
    => /\ alias["previous"] = Stable(r.pre["live"].version)
       /\ alias["live"] = Stable(r.pre["latest"].version)
       /\ alias["latest"] = r.pre["latest"]

\* a promote that succeeded from a state with a canary at 50% on live
C4_Witness ==
    LET r == proc[1] IN
    /\ Done(1, "promote") /\ r.exitCode = Success
    /\ r.pre["live"].version # r.pre["latest"].version
    /\ r.pre["live"].routing = {<<r.pre["latest"].version, 50>>}
    /\ r.pre["previous"].version # r.pre["live"].version

\* C5: a canary(p) with 0 < p < 100 that starts with live's primary version L
\* different from latest's version N, runs with no other operator acting, and
\* whose update succeeds ends with live's primary version L, the single
\* routing entry (N, p/100), and previous and latest as they were.
C5_CanaryEffect ==
    LET r == proc[1] IN
    (Done(1, "canary") /\ r.exitCode = Success
        /\ 0 < r.percent /\ r.percent < 100
        /\ r.pre["live"].version # r.pre["latest"].version)
    => /\ alias["live"] = [version |-> r.pre["live"].version,
                           routing |-> {<<r.pre["latest"].version, r.percent>>}]
       /\ alias["previous"] = r.pre["previous"]
       /\ alias["latest"] = r.pre["latest"]

\* a canary(50) that succeeded over an earlier canary entry of another weight
C5_Witness ==
    LET r == proc[1] IN
    /\ Done(1, "canary") /\ r.exitCode = Success /\ r.percent = 50
    /\ r.pre["live"].version # r.pre["latest"].version
    /\ r.pre["live"].routing = {<<r.pre["latest"].version, 10>>}

AllOk(r) == \A k \in 1..Len(r.calls) : r.calls[k].ok

\* C6: in a state where live's primary version equals latest's version, a
\* canary(p) with p > 0 whose two reads succeed exits with code 1 and issues
\* no update call, and a canary(0) whose calls succeed exits with code 0 and
\* leaves live on its primary version without routing.
C6_CanaryOnEqualVersions ==
    LET r == proc[1] IN
    (Done(1, "canary") /\ r.pre["live"].version = r.pre["latest"].version
        /\ Len(r.calls) >= 2 /\ r.calls[1].ok /\ r.calls[2].ok)
    => /\ r.percent > 0 =>
            /\ r.exitCode = ParamError
            /\ NoWrites(r)
            /\ alias = r.pre
       /\ (r.percent = 0 /\ AllOk(r)) =>
            /\ r.exitCode = Success
            /\ Len(r.calls) = 3 /\ IsWrite(r.calls[3])
            /\ alias["live"] = Stable(r.pre["live"].version)
            /\ alias["latest"] = r.pre["latest"]
            /\ alias["previous"] = r.pre["previous"]

\* a canary(0) that succeeded in a state where live equals latest
C6_Witness ==
    LET r == proc[1] IN
    /\ Done(1, "canary") /\ r.pre["live"].version = r.pre["latest"].version
    /\ r.percent = 0 /\ r.exitCode = Success
    /\ r.pre["previous"].version # r.pre["live"].version

\* a canary(10) that was refused in a state where live equals latest
C6_WitnessRefused ==
    LET r == proc[1] IN
    /\ Done(1, "canary") /\ r.pre["live"].version = r.pre["latest"].version
    /\ r.percent = 10 /\ r.exitCode = ParamError /\ Len(r.calls) = 2

\* C7 as stated: a routing entry of live always has a weight strictly
\* between 0 and 1.
C7_WeightStrictlyBetween ==
    \A e \in alias["live"].routing : 0 < e[2] /\ e[2] < 100

\* C7 as amended: a routing entry of live always has a weight greater than 0
\* and at most 1; a weight of 0 is never written, a weight of 1.0 is written
\* only by canary with --percent 100 and never by auto.
C7_WeightPositiveAtMostOne ==
    /\ \A e \in alias["live"].routing : 0 < e[2] /\ e[2] <= 100
    /\ \A p \in Operators : \A k \in 1..Len(proc[p].calls) :
         LET c == proc[p].calls[k] IN
         c.op = "configure_canary" =>
            /\ 0 < c.weight /\ c.weight <= 100
            /\ c.weight = 100 => (proc[p].cmd = "canary" /\ proc[p].percent = 100)

\* live carries a routing entry of weight 1.0 after canary --percent 100
C7_Witness ==
    /\ Done(1, "canary") /\ proc[1].percent = 100 /\ proc[1].exitCode = Success
    /\ \E e \in alias["live"].routing : e[2] = 100

\* the record of a successful read of alias a
GetCall(a) == Call("get_alias", a, NoVersion, 0, TRUE)

\* C8: an auto(s) that starts with live different from latest and whose
\* service calls all succeed issues, after its two reads, the canary updates
\* s, 2s, 3s, ... for every multiple strictly below 100, in increasing order,
\* then the two promote writes once; no auto run issues a canary update of
\* 100% or more.
C8_AutoSequence ==
    LET r == proc[1]
        s == r.percent
        n == 99 \div s
    IN  /\ (Done(1, "auto") /\ r.exitCode = Success) =>
             /\ r.pre["live"].version # r.pre["latest"].version
             /\ Len(r.calls) = n + 4
             /\ r.calls[1] = GetCall("live") /\ r.calls[2] = GetCall("latest")
             /\ \A k \in 1..n :
                  r.calls[2 + k] = CanaryCall(r.pre["live"].version,
                                              r.pre["latest"].version, k * s, TRUE)
             /\ r.calls[n + 3] = Call("update_alias", "previous", r.pre["live"].version, 0, TRUE)
             /\ r.calls[n + 4] = Call("update_alias", "live", r.pre["latest"].version, 0, TRUE)
        /\ (Done(1, "auto") /\ Len(r.calls) >= 2 /\ AllOk(r)
               /\ r.pre["live"].version # r.pre["latest"].version) => r.exitCode = Success
        /\ r.cmd = "auto" =>
             \A k \in 1..Len(r.calls) :
                r.calls[k].op = "configure_canary" => r.calls[k].weight < 100

\* auto(30) has run to its end: 30, 60, 90, then promote
C8_Witness ==
    LET r == proc[1] IN
    /\ Done(1, "auto") /\ r.exitCode = Success /\ r.percent = 30
    /\ Len(r.calls) = 7
    /\ r.calls[3].weight = 30 /\ r.calls[4].weight = 60 /\ r.calls[5].weight = 90
    /\ r.calls[6].alias = "previous" /\ r.calls[7].alias = "live"

\* C9: when a canary update of auto fails, the run ends there with an exit
\* code other than 0: the failed call is its last call (no further step, no
\* promote write, no retry) and live keeps what the last successful step
\* wrote (or, if the first step failed, what it had before the run).
C9_AutoAbortsOnFailedStep ==
    LET r == proc[1] IN
    \A k \in 1..Len(r.calls) :
      (r.cmd = "auto" /\ r.calls[k].op = "configure_canary" /\ ~r.calls[k].ok)
      => /\ k = Len(r.calls)
         /\ r.pc = "done"
         /\ r.exitCode \in {AWSError, ResourceNotFound, NetworkError}
         /\ alias["previous"] = r.pre["previous"]
         /\ alias["latest"] = r.pre["latest"]
         /\ alias["live"] = IF k = 3 THEN r.pre["live"]
                            ELSE [version |-> r.liveVersion,
                                  routing |-> {<<r.latestVersion, r.calls[k - 1].weight>>}]

\* auto(30) whose third canary update failed: live stays at 60%
C9_Witness ==
    LET r == proc[1] IN
    /\ Done(1, "auto") /\ r.percent = 30 /\ Len(r.calls) = 5
    /\ ~r.calls[5].ok /\ r.calls[5].weight = 90
    /\ alias["live"].routing = {<<r.latestVersion, 60>>}

\* C10: auto reads live and latest once each, as its first two calls; a run
\* whose calls all succeed ends with previous on the live version it read and
\* live on the latest version it read, without routing, whatever another
\* operator did to the aliases while the run was waiting.
C10_AutoUsesCapturedVersions ==
    LET r == proc[1] IN
    r.cmd = "auto" =>
      /\ \A k \in 1..Len(r.calls) : r.calls[k].op = "get_alias" => k <= 2
      /\ Len(r.calls) >= 2 =>
           /\ r.calls[1].alias = "live" /\ r.calls[2].alias = "latest"
           /\ r.calls[2].ok =>
                /\ r.liveVersion = r.pre["live"].version
                /\ r.latestVersion = r.pre["latest"].version
      /\ (r.pc = "done" /\ r.exitCode = Success) =>
           /\ alias["previous"] = Stable(r.pre["live"].version)
           /\ alias["live"] = Stable(r.pre["latest"].version)

\* an auto run succeeded although a rollback by the other operator had moved
\* latest and live while the run was waiting
C10_Witness ==
    LET r == proc[1] IN
    /\ Done(1, "auto") /\ r.exitCode = Success
    /\ Done(2, "rollback") /\ proc[2].exitCode = Success
    /\ Len(proc[2].calls) = 4
    /\ alias["latest"].version # r.latestVersion

\* the number of canary updates of a run that succeeded
OkCanaryCalls(r) ==
    Cardinality({k \in 1..Len(r.calls) :
                   r.calls[k].op = "configure_canary" /\ r.calls[k].ok})

C12_AutoValidatesInputs ==
    LET r == proc[1] IN
    (r.cmd = "auto" /\ (r.percent < 1 \/ r.percent > 100 \/ r.autoWait <= 0))
    => /\ r.pc = "done" /\ r.exitCode = ParamError
       /\ r.calls = << >>

\* C13: a rollback that has changed live and has ended has appended exactly
\* one line to the rollback log, from live's version before the run to
\* previous's version, or has warned that the log could not be written; also
\* when the update of latest that follows failed.
C13_RollbackChangeIsLogged ==
    LET r == proc[1] IN
    (Done(1, "rollback") /\ Len(r.calls) >= 3 /\ r.calls[3].ok)
    => \/ r.appended = <<[from |-> r.pre["live"].version,
                          to |-> r.pre["previous"].version]>>
       \/ (r.warned /\ r.appended = << >>)

\* C14: a rollback that starts with live's primary version equal to
\* previous's version and whose two reads succeed exits with code 0 after the
\* two reads, issues no update call, leaves the three aliases as they were
\* and appends nothing to the rollback log.
C14_RollbackNoop ==
    LET r == proc[1] IN
    (Done(1, "rollback") /\ r.pre["live"].version = r.pre["previous"].version
        /\ Len(r.calls) >= 2 /\ r.calls[1].ok /\ r.calls[2].ok)
    => /\ r.exitCode = Success
       /\ Len(r.calls) = 2 /\ NoWrites(r)
       /\ alias = r.pre
       /\ r.appended = << >> /\ ~r.warned

\* a rollback that had nothing to roll back, with latest on a newer version
C14_Witness ==
    LET r == proc[1] IN
    /\ Done(1, "rollback") /\ r.exitCode = Success /\ Len(r.calls) = 2
    /\ r.pre["live"].version = r.pre["previous"].version
    /\ r.pre["latest"].version # r.pre["live"].version

\* C15: after a rollback that changed live and exited with code 0, a promote
\* that follows at once and whose two reads succeed exits with code 0 without
\* an update call: the aliases stay as the rollback left them, live on the
\* version previous had, not on the version that was rolled back.
C15_PromoteAfterRollback ==
    LET a == proc[1]
        b == proc[2]
    IN  (Done(1, "rollback") /\ a.exitCode = Success /\ Len(a.calls) = 4
            /\ Done(2, "promote")
            /\ Len(b.calls) >= 2 /\ b.calls[1].ok /\ b.calls[2].ok)
        => /\ b.exitCode = Success
           /\ Len(b.calls) = 2 /\ NoWrites(b)
           /\ alias = b.pre
           /\ alias["live"] = Stable(a.pre["previous"].version)
           /\ alias["live"].version # a.pre["live"].version

\* a promote has followed a rollback that took live and latest back from a
\* newer version
C15_Witness ==
    LET a == proc[1]
        b == proc[2]
    IN  /\ Done(1, "rollback") /\ a.exitCode = Success /\ Len(a.calls) = 4
        /\ a.pre["latest"].version # a.pre["previous"].version
        /\ Done(2, "promote") /\ b.exitCode = Success /\ Len(b.calls) = 2

\* C16: a promote that starts with live's primary version equal to latest's
\* version and whose two reads succeed exits with code 0 after the two reads
\* and issues no update call: previous, live and latest are as they were.
C16_PromoteNoop ==
    LET r == proc[1] IN
    (Done(1, "promote") /\ r.pre["live"].version = r.pre["latest"].version
        /\ Len(r.calls) >= 2 /\ r.calls[1].ok /\ r.calls[2].ok)
    => /\ r.exitCode = Success
       /\ Len(r.calls) = 2 /\ NoWrites(r)
       /\ alias = r.pre

\* a promote that had nothing to promote, with previous on an older version
C16_Witness ==
    LET r == proc[1] IN
    /\ Done(1, "promote") /\ r.exitCode = Success /\ Len(r.calls) = 2
    /\ r.pre["live"].version = r.pre["latest"].version
    /\ r.pre["previous"].version # r.pre["live"].version

\* two runs of the same command with the same inputs
SameInputs(a, b) ==
    /\ a.cmd = b.cmd
    /\ a.percent = b.percent
    /\ a.switchVersion = b.switchVersion
    /\ a.skipCanary = b.skipCanary

\* C17: when promote, rollback, switch(V) or canary(p) has exited with code 0
\* and the same command with the same inputs is run again at once, with its
\* service calls succeeding, the second run exits with code 0 and leaves
\* live (version and routing), previous and latest as the first run left them.
C17_SecondRunChangesNothing ==
    LET a == proc[1]
        b == proc[2]
    IN  (a.pc = "done" /\ a.exitCode = Success /\ a.cmd \in RepeatCommands
            /\ b.pc = "done" /\ SameInputs(a, b)
            /\ Len(b.calls) >= 1 /\ AllOk(b))
        => /\ b.exitCode = Success
           /\ alias = b.pre

\* canary(50) has run twice over live different from latest; the second run
\* wrote the same routing entry again
C17_Witness ==
    LET a == proc[1]
        b == proc[2]
    IN  /\ Done(1, "canary") /\ a.exitCode = Success /\ a.percent = 50
        /\ Done(2, "canary") /\ b.exitCode = Success /\ b.percent = 50
        /\ Len(b.calls) = 3
        /\ alias["live"].routing = {<<alias["latest"].version, 50>>}

\* C18: whenever switch(V) exits with code 0, live's primary version is V and
\* live has no routing entry.
C18_SwitchSuccessMeansLiveOnTarget ==
    (Done(1, "switch") /\ proc[1].exitCode = Success)
    => alias["live"] = Stable(proc[1].switchVersion)

\* C19: a switch(V) for a published version V that starts with live's primary
\* version different from V and whose service calls succeed ends with code 0
\* and live on V without routing; no switch run, whatever its outcome, issues
\* a call on previous or latest or leaves them changed.
C19_SwitchEffect ==
    LET r == proc[1]
        V == r.switchVersion
    IN  /\ (Done(1, "switch") /\ V \in 1..published /\ r.pre["live"].version # V
               /\ Len(r.calls) >= 1 /\ AllOk(r))
            => /\ r.exitCode = Success
               /\ Len(r.calls) = 3
               /\ r.calls[3] = Call("update_alias", "live", V, 0, TRUE)
               /\ alias["live"] = Stable(V)
        /\ r.cmd = "switch" =>
               /\ alias["previous"] = r.pre["previous"]
               /\ alias["latest"] = r.pre["latest"]
               /\ \A k \in 1..Len(r.calls) :
                    r.calls[k].alias \notin {"previous", "latest"}

\* a switch has taken live, with a canary active, to a version that is
\* neither previous's nor latest's
C19_Witness ==
    LET r == proc[1] IN
    /\ Done(1, "switch") /\ r.exitCode = Success
    /\ r.pre["live"].version # r.switchVersion
    /\ r.pre["live"].routing # {}
    /\ r.switchVersion # alias["previous"].version
    /\ r.switchVersion # alias["latest"].version

\* C20: a switch(V) that starts with live's primary version equal to V and
\* whose version check and read of live succeed exits with code 0 after
\* them: it issues no update_alias and no publish_version call.
C20_SwitchNoop ==
    LET r == proc[1] IN
    (Done(1, "switch") /\ r.pre["live"].version = r.switchVersion
        /\ Len(r.calls) >= 2 /\ r.calls[1].ok /\ r.calls[2].ok)
    => /\ r.exitCode = Success
       /\ Len(r.calls) = 2 /\ NoWrites(r)
       /\ alias = r.pre

\* a switch to the version live is already on, with previous and latest on
\* other versions
C20_Witness ==
    LET r == proc[1] IN
    /\ Done(1, "switch") /\ r.exitCode = Success /\ Len(r.calls) = 2
    /\ r.pre["live"].version = r.switchVersion
    /\ r.pre["previous"].version # r.switchVersion
    /\ r.pre["latest"].version # r.switchVersion

\* C21: a switch(V) for a version V that was never published ends on its
\* first call, the existence check, which fails: it exits with code 3 when
\* the service answers that the version does not exist, issues no read or
\* update of an alias and leaves live, previous and latest as they were; in
\* every switch run the existence check has succeeded before live is read or
\* written.
C21_SwitchMissingVersion ==
    LET r == proc[1]
        V == r.switchVersion
    IN  /\ (r.cmd = "switch" /\ V \notin 1..published /\ Len(r.calls) >= 1)
            => /\ r.pc = "done"
               /\ r.calls = <<Call("get_function", "", V, 0, FALSE)>>
               /\ r.exitCode \in {AWSError, ResourceNotFound, NetworkError}
               /\ r.err = "notfound" => r.exitCode = ResourceNotFound
               /\ alias = r.pre
        /\ r.cmd = "switch" =>
             \A k \in 1..Len(r.calls) :
                r.calls[k].alias = "live" =>
                   (k >= 2 /\ r.calls[1].op = "get_function" /\ r.calls[1].ok)

\* a switch to a version that was never published was refused with code 3
\* while a canary was active on live
C21_Witness ==
    LET r == proc[1] IN
    /\ Done(1, "switch") /\ r.switchVersion > published
    /\ r.exitCode = ResourceNotFound /\ Len(r.calls) = 1
    /\ alias["live"].routing # {}

\* C22: a run that has ended on a failed service call has the exit code the
\* classifier gives the call's error: 4 for a network error, 3 for a
\* resource-not-found error, 2 for any other; at every call site.
C22_FailedCallExitsWithItsClass ==
    LET r == proc[1] IN
    (r.pc = "done" /\ r.err # "none") => r.exitCode = classifyError(r.err)

\* s has keyword at position i, letter case set aside
FoldedAt(s, keyword, i) ==
    \A j \in 1..Len(keyword) :
       LowerChar(SubSeq(s, i + j - 1, i + j - 1)) = LowerChar(SubSeq(keyword, j, j))
\* s has one of the keywords somewhere, letter case set aside
Mentions(s, keywords) ==
    \E k \in 1..Len(keywords) :
       \E i \in 1..(Len(s) - Len(keywords[k]) + 1) : FoldedAt(s, keywords[k], i)

\* C23: classifyError gives every error one code: 0 for no error; 4 for a
\* message with a network keyword in any letter case, also when it has a
\* not-found keyword too; 3 for a message with a not-found keyword and no
\* network keyword; 2 for every other message. The error kinds the commands
\* fail with are classified as their typical messages are.
C23_ClassifierTotal ==
    /\ probe.fn = "classifyError" /\ probe.returned =>
         probe.code =
            IF probe.err.nil THEN Success
            ELSE IF Mentions(probe.err.msg, networkKeywords) THEN NetworkError
            ELSE IF Mentions(probe.err.msg, resourceNotFoundKeywords) THEN ResourceNotFound
            ELSE AWSError
    /\ classifyError("none") = classifyErrorOf(NilError)
    /\ classifyError("network") = classifyErrorOf(ErrorOf("dial tcp: connection refused"))
    /\ classifyError("notfound") =
          classifyErrorOf(ErrorOf("ResourceNotFoundException: Function not found"))
    /\ classifyError("generic") = classifyErrorOf(ErrorOf("AccessDeniedException"))

\* a message with a network keyword in capitals and a not-found keyword was
\* classified as a network error
C23_Witness ==
    /\ probe.fn = "classifyError" /\ probe.returned
    /\ probe.err = ErrorOf("Not Found" \o "TIMEOUT")
    /\ probe.code = NetworkError

\* C24 as stated: a run that exits with code 1 has made no service call.
C24_RefusalsMakeNoCall ==
    (proc[1].pc = "done" /\ proc[1].exitCode = ParamError) => proc[1].calls = << >>

\* a run whose first two calls are reads that succeeded
TwoReadsOk(r) == Len(r.calls) >= 2 /\ r.calls[1].ok /\ r.calls[2].ok

\* C24 as amended: invalid input (an env other than test and prod, a canary
\* percent outside 0..100, an auto step outside 1..100) exits with code 1
\* before any service call; a precondition violation (canary with a percent
\* above 0 or auto with live = latest, deploy with a canary active) exits
\* with code 1 after the reads of the aliases that find it; no run that exits
\* with code 1 has issued an update or publish call or changed an alias.
C24_RefusalsMakeNoUpdate ==
    LET r == proc[1] IN
    /\ \A setup \in Setups, argOk \in BOOLEAN :
          ~ValidateEnv(setup.envValue) => Preamble(setup, argOk) = ParamError
    /\ ((r.cmd = "canary" /\ (r.percent < 0 \/ r.percent > 100))
          \/ (r.cmd = "auto" /\ (r.percent < 1 \/ r.percent > 100)))
       => (r.pc = "done" /\ r.exitCode = ParamError /\ r.calls = << >>)
    /\ (r.pc = "done" /\ r.exitCode = ParamError)
       => /\ \A k \in 1..Len(r.calls) : r.calls[k].op = "get_alias" /\ r.calls[k].ok
          /\ alias = r.pre
    /\ (r.pc = "done" /\ r.cmd \in {"canary", "auto"} /\ TwoReadsOk(r)
           /\ r.pre["live"].version = r.pre["latest"].version
           /\ (r.cmd = "canary" => r.percent > 0))
       => (r.exitCode = ParamError /\ Len(r.calls) = 2)
    /\ (Done(1, "deploy") /\ r.pre["live"].routing # {}
           /\ Len(r.calls) >= 1 /\ r.calls[1].ok)
       => (r.exitCode = ParamError /\ Len(r.calls) = 1)

\* an auto run was refused with code 1 after reading live and latest on the
\* same version
C24_Witness ==
    LET r == proc[1] IN
    /\ Done(1, "auto") /\ r.exitCode = ParamError
    /\ r.calls = <<GetCall("live"), GetCall("latest")>>
    /\ r.liveVersion = r.latestVersion

\* C25: a rollback whose two updates succeeded and whose log line could not
\* be written exits with code 0, and live and latest stay on previous's
\* version, live without routing.
C25_LogFailureIsNotFatal ==
    LET r == proc[1] IN
    (Done(1, "rollback") /\ Len(r.calls) = 4 /\ AllOk(r) /\ r.appended = << >>)
    => /\ r.warned
       /\ r.exitCode = Success
       /\ alias["live"] = Stable(r.pre["previous"].version)
       /\ alias["latest"] = Stable(r.pre["previous"].version)
       /\ alias["previous"] = r.pre["previous"]

\* a rollback from a canary in progress has ended with the log-write warning
C25_Witness ==
    LET r == proc[1] IN
    /\ Done(1, "rollback") /\ r.warned /\ r.appended = << >>
    /\ r.exitCode = Success
    /\ r.pre["live"].routing # {}
    /\ alias["live"] = Stable(r.pre["previous"].version)

\* C26: a deploy that starts with no canary active on live and whose steps
\* all succeed ends with latest on the version publish_version returned, a
\* version that did not exist before, and live and previous as they were; a
\* deploy whose publish succeeded and whose update of latest failed leaves
\* latest, live and previous as they were.
C26_DeployEffect ==
    LET r == proc[1] IN
    /\ (Done(1, "deploy") /\ r.pre["live"].routing = {} /\ r.exitCode = Success)
       => /\ Len(r.calls) = 3
          /\ r.calls[2] = Call("publish_version", "", r.newVersion, 0, TRUE)
          /\ r.newVersion = published
          /\ \A a \in AliasNames : r.pre[a].version < r.newVersion
          /\ alias["latest"] = Stable(r.newVersion)
          /\ alias["live"] = r.pre["live"]
          /\ alias["previous"] = r.pre["previous"]
    /\ (Done(1, "deploy") /\ Len(r.calls) = 3 /\ r.calls[2].ok /\ ~r.calls[3].ok)
       => /\ r.exitCode \in {AWSError, ResourceNotFound, NetworkError}
          /\ alias = r.pre

\* a deploy has succeeded over an earlier version that was waiting on latest
C26_Witness ==
    LET r == proc[1] IN
    /\ Done(1, "deploy") /\ r.exitCode = Success
    /\ r.pre["latest"].version # r.pre["live"].version
    /\ r.pre["live"].routing = {}
    /\ alias["latest"].version = r.newVersion
    /\ alias["latest"].version # r.pre["latest"].version

\* C27: a status run issues reads only and leaves the aliases as they are;
\* a run whose four reads succeed exits with code 0 and reports one class:
\* canary exactly when live has a routing entry, otherwise stable exactly
\* when live's version is latest's version, otherwise pending.
C27_StatusReport ==
    LET r == proc[1] IN
    r.cmd = "status" =>
      /\ \A k \in 1..Len(r.calls) : r.calls[k].op = "get_alias"
      /\ alias = r.pre
      /\ r.pc # "done" => r.report = "none"
      /\ (r.pc = "done" /\ Len(r.calls) = 4 /\ AllOk(r)) =>
           /\ r.exitCode = Success
           /\ r.report \in {"canary", "stable", "pending"}
           /\ r.report = "canary" <=> alias["live"].routing # {}
           /\ r.report = "stable" <=>
                 (alias["live"].routing = {}
                    /\ alias["live"].version = alias["latest"].version)
           /\ r.report = "pending" <=>
                 (alias["live"].routing = {}
                    /\ alias["live"].version # alias["latest"].version)

\* status has reported a canary in progress
C27_Witness ==
    LET r == proc[1] IN
    /\ Done(1, "status") /\ Len(r.calls) = 4 /\ AllOk(r)
    /\ r.report = "canary"
    /\ alias["live"].routing = {<<alias["latest"].version, 10>>}

\* the position of a strategy in AllStrategies, 0 when it is not in the list
IndexOf(s) ==
    IF \E i \in 1..Len(AllStrategies) : AllStrategies[i] = s
    THEN CHOOSE i \in 1..Len(AllStrategies) : AllStrategies[i] = s
    ELSE 0

\* C28: the weight looked up for a name that is no canonical strategy is
\* not the value 0 that canary0 yields.
C28_UnknownWeightIsNotZero ==
    (/\ probe.fn = "CanaryStrategy"
     /\ "Weight" \in probe.called
     /\ IndexOf(probe.s) = 0) => probe.weight # Weight(Canary0)

MakesCall(p) == Len(proc'[p].calls) = Len(proc[p].calls) + 1
LastCall(p) == proc'[p].calls[Len(proc'[p].calls)]

\* every alias has at most one routing entry, previous and latest have none
C31_RoutingShape ==
    /\ \A a \in AliasNames : Cardinality(alias[a].routing) <= 1
    /\ alias["previous"].routing = {}
    /\ alias["latest"].routing = {}

\* a successful write that leaves a routing entry is a canary update of live
\* made by canary or auto; every other successful alias write leaves the
\* alias it writes without routing
C31_WriteStep ==
    \A p \in Operators :
      (MakesCall(p) /\ LastCall(p).ok
         /\ LastCall(p).op \in {"update_alias", "configure_canary"}) =>
        IF LastCall(p).op = "configure_canary"
        THEN /\ LastCall(p).alias = "live"
             /\ proc[p].cmd \in {"canary", "auto"}
             /\ alias'["live"].routing = {<<LastCall(p).canary, LastCall(p).weight>>}
        ELSE alias'[LastCall(p).alias].routing = {}

\* C31: in every reachable state each alias has at most one routing entry and
\* previous and latest have none; the only writes that create a routing entry
\* are the canary updates of live by canary and auto, and every other alias
\* write clears the routing of the alias it writes.
C31_AtMostOneRoutingEntry == []C31_RoutingShape /\ [][C31_WriteStep]_vars

\* the second operator's canary has replaced the routing entry an auto run
\* of the first operator had set
C31_Witness ==
    /\ proc[1].cmd = "auto" /\ proc[1].pc = "sleep"
    /\ Done(2, "canary") /\ proc[2].exitCode = Success /\ proc[2].percent = 10
    /\ Len(proc[2].calls) = 3
    /\ alias["live"].routing = {<<proc[2].latestVersion, 10>>}

\* C32: a promote, or an auto run in its promote phase, that ends with a
\* failure leaves previous as it was: previous is not overwritten with live's
\* version while live still points to the old version.
C32_FailedPromoteKeepsPrevious ==
    LET r == proc[1] IN
    (r.cmd \in {"promote", "auto"} /\ r.pc = "done" /\ r.exitCode # Success) =>
      alias["previous"] = r.pre["previous"]

\* the second operator's rollback has completed while the first operator's
\* auto run was waiting: it moved live and latest to a version other than the
\* one that was latest when the auto run started
RolledBackDuringAuto ==
    /\ proc[1].cmd = "auto" /\ proc[1].latestVersion # NoVersion
    /\ Done(2, "rollback") /\ proc[2].exitCode = Success
    /\ \E k \in 1..Len(proc[2].calls) :
          /\ proc[2].calls[k].op = "update_alias" /\ proc[2].calls[k].alias = "latest"
          /\ proc[2].calls[k].ok
    /\ proc[2].previousVersion # proc[1].latestVersion

\* C33 as stated: once another operator's rollback has completed during a
\* wait of an auto run, live is never again routed to the version that was
\* latest when the auto run started, and that version is never promoted to
\* live (no deploy follows the rollback here).
C33_AutoDoesNotUndoRollback ==
    RolledBackDuringAuto =>
      /\ alias["live"].version # proc[1].latestVersion
      /\ \A e \in alias["live"].routing : e[1] # proc[1].latestVersion

\* C33, amended: an auto run does not notice a rollback that another operator
\* completes during one of its waits. It goes on with the versions it read at
\* its start: if its remaining calls succeed it ends with live on the version
\* that was latest when it started, without routing, and previous on the
\* version that was live when it started; latest stays on the version the
\* rollback put it on.
C33_AutoGoesOnAfterRollback ==
    RolledBackDuringAuto =>
      /\ alias["latest"] = Stable(proc[2].previousVersion)
      /\ (proc[1].pc = "done" /\ proc[1].exitCode = Success) =>
           /\ alias["live"] = Stable(proc[1].latestVersion)
           /\ alias["previous"] = Stable(proc[1].liveVersion)

\* an auto run has ended with success after a rollback that had moved live
\* to a version other than the two the auto run read
C33_Witness ==
    /\ RolledBackDuringAuto
    /\ proc[1].pc = "done" /\ proc[1].exitCode = Success
    /\ proc[2].previousVersion # proc[1].liveVersion
    /\ alias["live"] = Stable(proc[1].latestVersion)
    /\ alias["latest"].version # alias["live"].version

\* the commands whose concurrent runs are compared with their serial runs
MutatingCommands == {"canary", "promote", "rollback", "switch"}

\* C34: when two operators have each run one of canary, promote, rollback
\* and switch at the same time, their service calls interleaved in any order
\* and all of them successful, the aliases end as they would after the two
\* commands run one after the other in one of the two orders (from the state
\* either command started in).
C34_ConcurrentRunsAreSerializable ==
    (/\ proc[1].cmd \in MutatingCommands /\ proc[1].pc = "done" /\ AllOk(proc[1])
     /\ proc[2].cmd \in MutatingCommands /\ proc[2].pc = "done" /\ AllOk(proc[2])) =>
      \E s \in {proc[1].pre, proc[2].pre} :
         \/ alias = SerialRun(proc[2], SerialRun(proc[1], s))
         \/ alias = SerialRun(proc[1], SerialRun(proc[2], s))

\* C35: when commands run one after the other and every read of an alias
\* succeeds, a routing entry of live always names the version latest points
\* to.
C35_CanaryIsLatest ==
    \A e \in alias["live"].routing : e[1] = alias["latest"].version

\* a deploy has been refused because a canary is active
C35_Witness ==
    /\ Done(1, "deploy") /\ proc[1].exitCode = ParamError
    /\ Len(proc[1].calls) = 1 /\ proc[1].calls[1].ok
    /\ alias["live"].routing = {<<alias["latest"].version, 10>>}
    /\ alias["latest"].version = published

\* C36: in every reachable state, also when the commands of two operators
\* interleave, a routing entry of live names a version other than live's
\* primary version.
C36_CanaryIsNotPrimary ==
    \A e \in alias["live"].routing : e[1] # alias["live"].version

\* a canary has written its routing entry after a promote of the other
\* operator had moved live in between: live is back on the version the
\* canary had read, which is now previous's version too
C36_Witness ==
    /\ Done(1, "canary") /\ proc[1].exitCode = Success /\ proc[1].percent = 10
    /\ Done(2, "promote") /\ proc[2].exitCode = Success
    /\ proc[1].pre = proc[2].pre
    /\ \E k \in 1..Len(proc[2].calls) :
          /\ proc[2].calls[k].op = "update_alias" /\ proc[2].calls[k].alias = "live"
          /\ proc[2].calls[k].ok
    /\ alias["live"] = [version |-> proc[1].liveVersion,
                        routing |-> {<<proc[1].latestVersion, 10>>}]
    /\ alias["previous"].version = alias["live"].version

\* an auto run has passed its argument checks and is about to read the
\* aliases, live and latest on different versions
AutoStarted ==
    /\ proc[1].cmd = "auto" /\ proc[1].pc = "get_live"
    /\ alias["live"].version # alias["latest"].version

\* the auto run has ended; if all its service calls succeeded, with exit code
\* 0, live on the version latest had before the run, without routing, and
\* previous on the version live had before the run
AutoEnded ==
    /\ proc[1].cmd = "auto" /\ proc[1].pc = "done"
    /\ AllOk(proc[1]) =>
         /\ proc[1].exitCode = Success
         /\ alias["live"] = Stable(proc[1].pre["latest"].version)
         /\ alias["previous"] = Stable(proc[1].pre["live"].version)

\* C37: when no other operator acts, every auto run started with live and
\* latest on different versions eventually ends, and if every service call
\* of the run succeeds it ends with exit code 0, live on the version latest
\* had before the run, without routing, and previous on the version live had
\* before the run.
C37_AutoTerminates == AutoStarted ~> AutoEnded

\* an auto run of several steps has ended with success
C37_Witness ==
    /\ Done(1, "auto") /\ proc[1].exitCode = Success /\ AllOk(proc[1])
    /\ Len(proc[1].steps) >= 2 /\ proc[1].waits = Len(proc[1].steps)
    /\ proc[1].pre["live"].version # proc[1].pre["latest"].version
    /\ alias["live"] = Stable(proc[1].pre["latest"].version)
    /\ alias["previous"] = Stable(proc[1].pre["live"].version)

\* operator 1 has promoted with success from live and latest on different
\* versions, and operator 2 has rolled back with success right after
PromotedThenRolledBack ==
    /\ Done(1, "promote") /\ proc[1].exitCode = Success /\ AllOk(proc[1])
    /\ proc[1].pre["live"].version # proc[1].pre["latest"].version
    /\ Done(2, "rollback") /\ proc[2].exitCode = Success /\ AllOk(proc[2])

\* C38: from live on version L and latest on another version, with or
\* without an active canary, a successful promote followed immediately by a
\* successful rollback leaves live on L without routing, previous on L and
\* latest on L.
C38_PromoteThenRollback ==
    PromotedThenRolledBack =>
       /\ alias["live"] = Stable(proc[1].pre["live"].version)
       /\ alias["previous"].version = proc[1].pre["live"].version
       /\ alias["latest"].version = proc[1].pre["live"].version

\* a promote that ended an active canary has been rolled back
C38_Witness ==
    /\ PromotedThenRolledBack
    /\ proc[1].pre["live"].routing # {}
    /\ proc[2].pre["live"] = Stable(proc[1].pre["latest"].version)
    /\ alias["live"] = Stable(proc[1].pre["live"].version)
    /\ alias["latest"].version = proc[1].pre["live"].version

\* a promote without an active canary has been rolled back
C38_WitnessNoCanary ==
    /\ PromotedThenRolledBack
    /\ proc[1].pre["live"].routing = {}
    /\ alias["live"] = Stable(proc[1].pre["live"].version)

====
